---- MODULE Spec2Model ----
(***************************************************************************)
(* Order / payment lifecycle of the CeylonSoftwareHub server.              *)
(*                                                                         *)
(* The document store is modelled by the collections `orders` and          *)
(* `products`; every route handler is one atomic action.  `last` records   *)
(* the most recent request: route, HTTP status, the document the handler   *)
(* looked up (0 when it answered before any lookup) and the request        *)
(* input that decided the outcome.  `raters` holds the rating requests     *)
(* that are between their read and their write of the product.             *)
(***************************************************************************)
EXTENDS Integers, Sequences, FiniteSets, TLC

VARIABLES orders, products, nextId, last, raters

vars == <<orders, products, nextId, last, raters>>

\* ---------------------------------------------------------------- bounds
MaxOrders == 1      \* order documents ever created (lifecycle, placement)
MaxCreated == 3     \* order documents ever created (order numbering)
MaxItems == 2       \* line items per request
MaxQty == 2         \* quantity per line item
MaxPrice == 2       \* product price
MaxRatings == 2     \* rating count of a product

\* ------------------------------------------------------------- constants
NULL == "null"

ProductIds == {"p1", "p2"}

PaymentMethods == {"card", "bank_transfer"}

PaymentStatuses == {"pending", "paid", "failed"}

OrderStatuses == {"pending", "processing", "completed"}

IntentIds == {"pi_1"}

Signatures == {"missing", "malformed", "mismatch", "valid"}

EventTypes == {"payment_intent.succeeded", "payment_intent.payment_failed"}

IntentStatuses == {"succeeded", "requires_payment_method"}

\* callers: no token, two registered users, one admin
Callers == {"anon", "u1", "u2", "admin"}

\* ------------------------------------------------------- middleware/auth
\* authenticate: a request without a valid token is refused with 401
Authenticate(caller) == IF caller = "anon" THEN 401 ELSE 200

\* requireAdmin: an authenticated caller whose role is not admin gets 403
RequireAdmin(caller) == IF caller = "admin" THEN 200 ELSE 403

\* variant: the router installs the authentication middleware only
AdminGateAuthOnly(caller) == Authenticate(caller)

\* router.use(authenticate); router.use(requireAdmin) in front of /admin/*
AdminGate(caller) ==
    IF Authenticate(caller) # 200 THEN Authenticate(caller)
    ELSE RequireAdmin(caller)

\* req.user?._id || null under optionalAuth
ReqUser(caller) == IF caller = "anon" THEN NULL ELSE caller

\* variant: the contact info of the request body is stored as sent
GuestInfoOfBody(caller) == "guest"

\* req.user ? null : guestInfo, for a body whose guestInfo is "guest"
GuestInfoOf(caller) == IF caller = "anon" THEN "guest" ELSE NULL

\* ------------------------------------------------------------ order model
\* schema defaults of a new Order document
OrderSchemaDefaults ==
    [paymentStatus |-> "pending", orderStatus |-> "pending",
     paymentSlip |-> NULL, stripePaymentIntent |-> NULL]

\* decimal digits of n, most significant first: String(n)
RECURSIVE Digits(_)
Digits(n) == IF n < 10 THEN <<n>> ELSE Append(Digits(n \div 10), n % 10)

\* s.padStart(w, '0'): pads on the left, never truncates
RECURSIVE PadStart(_, _)
PadStart(s, w) == IF Len(s) >= w THEN s ELSE PadStart(<<0>> \o s, w)

\* `CSH-${String(count + 1).padStart(6, '0')}`, the digits after "CSH-"
OrderNumberWidth == 6

FormatOrderNumber(count) == PadStart(Digits(count + 1), OrderNumberWidth)

\* Order.countDocuments()
CountDocuments == Cardinality(DOMAIN orders)

\* Order.findById(id) returns a document (not null)
OrderFound(id) == id \in DOMAIN orders

\* the document Order.findById(id) returns when there is one
FindById(id) == orders[id]

\* order.save() / findByIdAndUpdate of one document
SaveOrder(id, doc) == [orders EXCEPT ![id] = doc]

Respond(op, id, code, arg) == [op |-> op, id |-> id, code |-> code, arg |-> arg]

\* ---------------------------------------------------------- POST /orders
\* the for-loop over req.body.items: returns the captured line items, or
\* rejected = TRUE at the first missing or inactive product
RECURSIVE BuildItems(_, _)
BuildItems(items, acc) ==
    IF items = <<>> THEN [rejected |-> FALSE, items |-> acc]
    ELSE LET item == Head(items) IN
         IF item.productId \notin DOMAIN products
            \/ ~products[item.productId].isActive
         THEN [rejected |-> TRUE, items |-> <<>>]
         ELSE BuildItems(Tail(items),
                         Append(acc, [product  |-> item.productId,
                                      price    |-> products[item.productId].price,
                                      quantity |-> item.quantity]))

\* variant: the total adds each price once, whatever the quantity
RECURSIVE TotalAmountNoQty(_, _)
TotalAmountNoQty(orderItems, total) ==
    IF orderItems = <<>> THEN total
    ELSE TotalAmountNoQty(Tail(orderItems), total + Head(orderItems).price)

\* totalAmount += product.price * item.quantity, accumulated over the loop
RECURSIVE TotalAmount(_, _)
TotalAmount(orderItems, total) ==
    IF orderItems = <<>> THEN total
    ELSE TotalAmount(Tail(orderItems),
                     total + Head(orderItems).price * Head(orderItems).quantity)

CreateOrder(caller, items, paymentMethod) ==
    LET built == BuildItems(items, <<>>)
        orderItems == built.items
    IN
    IF built.rejected
    THEN /\ last' = Respond("create", 0, 400, <<>>)
         /\ UNCHANGED <<orders, products, nextId, raters>>
    ELSE LET doc == [user |-> ReqUser(caller),
                     guestInfo |-> GuestInfoOf(caller),
                     items |-> orderItems,
                     totalAmount |-> TotalAmount(orderItems, 0),
                     paymentMethod |-> paymentMethod,
                     orderNumber |-> FormatOrderNumber(CountDocuments),
                     paymentStatus |-> OrderSchemaDefaults.paymentStatus,
                     orderStatus |-> OrderSchemaDefaults.orderStatus,
                     paymentSlip |-> OrderSchemaDefaults.paymentSlip,
                     stripePaymentIntent |-> OrderSchemaDefaults.stripePaymentIntent]
         IN /\ orders' = [i \in DOMAIN orders \cup {nextId} |->
                             IF i = nextId THEN doc ELSE orders[i]]
            /\ nextId' = nextId + 1
            /\ last' = Respond("create", nextId, 201, <<>>)
            /\ UNCHANGED <<products, raters>>

\* ------------------------------------------------------ DELETE /orders/:id
DeleteOrder(caller, id) ==
    IF Authenticate(caller) # 200
    THEN /\ last' = Respond("delete", 0, 401, <<>>)
         /\ UNCHANGED <<orders, products, nextId, raters>>
    ELSE IF caller # "admin"
    THEN /\ last' = Respond("delete", 0, 403, <<>>)
         /\ UNCHANGED <<orders, products, nextId, raters>>
    ELSE IF ~OrderFound(id)
    THEN /\ last' = Respond("delete", id, 404, <<>>)
         /\ UNCHANGED <<orders, products, nextId, raters>>
    ELSE /\ orders' = [i \in DOMAIN orders \ {id} |-> orders[i]]
         /\ last' = Respond("delete", id, 200, <<>>)
         /\ UNCHANGED <<products, nextId, raters>>

\* ---------------------------------------------- POST /orders/:id/payment-slip
\* variant: every content type passes the filter
FileFilterAny(file) == TRUE

\* multer fileFilter: only image/* content types pass
FileFilter(file) == file # "nonimage"

\* order.paymentSlip = { url: result.secure_url, uploadedAt: new Date() };
\* order.paymentStatus = 'pending'.  "url" stands for the slip record.
RecordSlip(order) ==
    [order EXCEPT !.paymentSlip = "url", !.paymentStatus = "pending"]

\* variant: the handler does not look at the order's payment method
UploadPaymentSlipAnyMethod(id, file, cloudOk) ==
    IF ~FileFilter(file)
    THEN /\ last' = Respond("slip", 0, 500, <<file, "no_upload">>)
         /\ UNCHANGED <<orders, products, nextId, raters>>
    ELSE IF ~OrderFound(id)
    THEN /\ last' = Respond("slip", id, 404, <<file, "no_upload">>)
         /\ UNCHANGED <<orders, products, nextId, raters>>
    ELSE IF file = "none"
    THEN /\ last' = Respond("slip", id, 400, <<file, "no_upload">>)
         /\ UNCHANGED <<orders, products, nextId, raters>>
    ELSE IF ~cloudOk
    THEN /\ last' = Respond("slip", id, 500, <<file, "upload">>)
         /\ UNCHANGED <<orders, products, nextId, raters>>
    ELSE /\ orders' = SaveOrder(id, RecordSlip(FindById(id)))
         /\ last' = Respond("slip", id, 200, <<file, "upload">>)
         /\ UNCHANGED <<products, nextId, raters>>

\* the second element of the response record tells whether the handler
\* reached cloudinary.uploader.upload_stream
UploadPaymentSlip(id, file, cloudOk) ==
    LET order == FindById(id) IN
    IF ~FileFilter(file)
    THEN \* multer hands the filter's error to the error middleware
         /\ last' = Respond("slip", 0, 500, <<file, "no_upload">>)
         /\ UNCHANGED <<orders, products, nextId, raters>>
    ELSE IF ~OrderFound(id)
    THEN /\ last' = Respond("slip", id, 404, <<file, "no_upload">>)
         /\ UNCHANGED <<orders, products, nextId, raters>>
    ELSE IF order.paymentMethod # "bank_transfer"
    THEN /\ last' = Respond("slip", id, 400, <<file, "no_upload">>)
         /\ UNCHANGED <<orders, products, nextId, raters>>
    ELSE IF file = "none"
    THEN /\ last' = Respond("slip", id, 400, <<file, "no_upload">>)
         /\ UNCHANGED <<orders, products, nextId, raters>>
    ELSE IF ~cloudOk
    THEN /\ last' = Respond("slip", id, 500, <<file, "upload">>)
         /\ UNCHANGED <<orders, products, nextId, raters>>
    ELSE /\ orders' = SaveOrder(id, RecordSlip(order))
         /\ last' = Respond("slip", id, 200, <<file, "upload">>)
         /\ UNCHANGED <<products, nextId, raters>>

\* ------------------------------------------ PUT /admin/payment-slips/:id/verify
Decision(approved) == IF approved THEN "approved" ELSE "rejected"

VerifyPaymentSlip(caller, id, approved) ==
    LET order == FindById(id) IN
    IF AdminGate(caller) # 200
    THEN /\ last' = Respond("verify", 0, AdminGate(caller), <<>>)
         /\ UNCHANGED <<orders, products, nextId, raters>>
    ELSE IF ~OrderFound(id)
    THEN /\ last' = Respond("verify", id, 404, <<Decision(approved)>>)
         /\ UNCHANGED <<orders, products, nextId, raters>>
    ELSE /\ orders' = SaveOrder(id, [order EXCEPT !.paymentStatus =
                                        IF approved THEN "paid" ELSE "failed"])
         /\ last' = Respond("verify", id, 200, <<Decision(approved)>>)
         /\ UNCHANGED <<products, nextId, raters>>

\* ------------------------------------------------ PUT /admin/orders/:id/status
\* updateData: a field is written only when the body carries a truthy value
UpdateData(order, orderStatus, paymentStatus) ==
    [order EXCEPT !.orderStatus = IF orderStatus # NULL THEN orderStatus ELSE @,
                  !.paymentStatus = IF paymentStatus # NULL THEN paymentStatus ELSE @]

UpdateOrderStatus(caller, id, orderStatus, paymentStatus) ==
    LET order == FindById(id) IN
    IF AdminGate(caller) # 200
    THEN /\ last' = Respond("status", 0, AdminGate(caller), <<>>)
         /\ UNCHANGED <<orders, products, nextId, raters>>
    ELSE IF ~OrderFound(id)
    THEN /\ last' = Respond("status", id, 404, <<>>)
         /\ UNCHANGED <<orders, products, nextId, raters>>
    ELSE /\ orders' = SaveOrder(id, UpdateData(order, orderStatus, paymentStatus))
         /\ last' = Respond("status", id, 200, <<>>)
         /\ UNCHANGED <<products, nextId, raters>>

\* ------------------------------------------------------- payment gateway
\* variant: the client is a module-level binding every handler sees
StripeInScopeModule(handler) == TRUE

\* the binding the identifier `stripe` resolves to inside a handler of the
\* payments router: the client is a const local to create-payment-intent,
\* the module scope declares only `Stripe` (the class) and `router`
StripeInScope(handler) == handler = "create-payment-intent"

\* variant: the event is parsed from the body without verification
ConstructEventThrowsNoVerify(sig) == FALSE

\* stripe.webhooks.constructEvent(body, sig, secret): throws unless the
\* header-carried signature matches the signing secret
ConstructEventThrows(sig) == ~StripeInScope("webhook") \/ sig # "valid"

\* the write both payment callbacks apply to the order they found
MarkPaid(order) ==
    [order EXCEPT !.paymentStatus = "paid", !.orderStatus = "processing"]

\* variant: the order is stamped and saved before the gateway answers
CreatePaymentIntentEager(caller, id, gw) ==
    IF Authenticate(caller) # 200
    THEN /\ last' = Respond("intent", 0, 401, <<"unauthenticated">>)
         /\ UNCHANGED <<orders, products, nextId, raters>>
    ELSE IF ~OrderFound(id)
    THEN /\ last' = Respond("intent", id, 404, <<"not_found">>)
         /\ UNCHANGED <<orders, products, nextId, raters>>
    ELSE IF FindById(id).user = NULL
    THEN /\ last' = Respond("intent", id, 500, <<"type_error">>)
         /\ UNCHANGED <<orders, products, nextId, raters>>
    ELSE IF FindById(id).user # caller
    THEN /\ last' = Respond("intent", id, 403, <<"not_owner">>)
         /\ UNCHANGED <<orders, products, nextId, raters>>
    ELSE IF gw = "throw"
    THEN /\ orders' = SaveOrder(id, [FindById(id) EXCEPT
                                        !.stripePaymentIntent = "pi_requested"])
         /\ last' = Respond("intent", id, 500, <<"gateway_error">>)
         /\ UNCHANGED <<products, nextId, raters>>
    ELSE /\ orders' = SaveOrder(id, [FindById(id) EXCEPT !.stripePaymentIntent = gw])
         /\ last' = Respond("intent", id, 200, <<"created">>)
         /\ UNCHANGED <<products, nextId, raters>>

\* ------------------------------------ POST /payments/create-payment-intent
\* gw: what stripe.paymentIntents.create does, "throw" or the new intent id
CreatePaymentIntent(caller, id, gw) ==
    LET order == FindById(id) IN
    IF Authenticate(caller) # 200
    THEN /\ last' = Respond("intent", 0, 401, <<"unauthenticated">>)
         /\ UNCHANGED <<orders, products, nextId, raters>>
    ELSE IF ~OrderFound(id)
    THEN /\ last' = Respond("intent", id, 404, <<"not_found">>)
         /\ UNCHANGED <<orders, products, nextId, raters>>
    ELSE IF order.user = NULL
    THEN \* order.user.toString() on a guest order: TypeError, caught
         /\ last' = Respond("intent", id, 500, <<"type_error">>)
         /\ UNCHANGED <<orders, products, nextId, raters>>
    ELSE IF order.user # caller
    THEN /\ last' = Respond("intent", id, 403, <<"not_owner">>)
         /\ UNCHANGED <<orders, products, nextId, raters>>
    ELSE IF ~StripeInScope("create-payment-intent")
    THEN /\ last' = Respond("intent", id, 500, <<"reference_error">>)
         /\ UNCHANGED <<orders, products, nextId, raters>>
    ELSE IF gw = "throw"
    THEN /\ last' = Respond("intent", id, 500, <<"gateway_error">>)
         /\ UNCHANGED <<orders, products, nextId, raters>>
    ELSE /\ orders' = SaveOrder(id, [order EXCEPT !.stripePaymentIntent = gw])
         /\ last' = Respond("intent", id, 200, <<"created">>)
         /\ UNCHANGED <<products, nextId, raters>>

\* ------------------------------------------ POST /payments/confirm-payment
\* gw: what stripe.paymentIntents.retrieve does, "throw" or the status of
\* the retrieved intent; id: the intent's metadata.orderId
ConfirmPayment(caller, id, gw) ==
    IF Authenticate(caller) # 200
    THEN /\ last' = Respond("confirm", 0, 401, <<"unauthenticated">>)
         /\ UNCHANGED <<orders, products, nextId, raters>>
    ELSE IF ~StripeInScope("confirm-payment")
    THEN \* ReferenceError: stripe is not defined, caught
         /\ last' = Respond("confirm", 0, 500, <<"reference_error">>)
         /\ UNCHANGED <<orders, products, nextId, raters>>
    ELSE IF gw = "throw"
    THEN /\ last' = Respond("confirm", 0, 500, <<"gateway_error">>)
         /\ UNCHANGED <<orders, products, nextId, raters>>
    ELSE IF gw = "succeeded" /\ OrderFound(id)
    THEN /\ orders' = SaveOrder(id, MarkPaid(FindById(id)))
         /\ last' = Respond("confirm", id, 200, <<gw>>)
         /\ UNCHANGED <<products, nextId, raters>>
    ELSE /\ last' = Respond("confirm", id, 200, <<gw>>)
         /\ UNCHANGED <<orders, products, nextId, raters>>

\* variant: the handler trusts a verified event and also books failures
WebhookRegress(sig, evType, id) ==
    IF sig # "valid"
    THEN /\ last' = Respond("webhook", 0, 400, <<sig, evType>>)
         /\ UNCHANGED <<orders, products, nextId, raters>>
    ELSE IF OrderFound(id)
    THEN /\ orders' = SaveOrder(id,
                IF evType = "payment_intent.succeeded" THEN MarkPaid(FindById(id))
                ELSE [FindById(id) EXCEPT !.paymentStatus = "failed"])
         /\ last' = Respond("webhook", id, 200, <<sig, evType>>)
         /\ UNCHANGED <<products, nextId, raters>>
    ELSE /\ last' = Respond("webhook", id, 200, <<sig, evType>>)
         /\ UNCHANGED <<orders, products, nextId, raters>>

\* ------------------------------------------------- POST /payments/webhook
\* sig: the stripe-signature header; evType: event.type; id: the orderId in
\* the metadata of event.data.object
Webhook(sig, evType, id) ==
    IF ConstructEventThrows(sig)
    THEN /\ last' = Respond("webhook", 0, 400, <<sig, evType>>)
         /\ UNCHANGED <<orders, products, nextId, raters>>
    ELSE IF evType = "payment_intent.succeeded" /\ OrderFound(id)
    THEN /\ orders' = SaveOrder(id, MarkPaid(FindById(id)))
         /\ last' = Respond("webhook", id, 200, <<sig, evType>>)
         /\ UNCHANGED <<products, nextId, raters>>
    ELSE /\ last' = Respond("webhook", id, 200, <<sig, evType>>)
         /\ UNCHANGED <<orders, products, nextId, raters>>

\* ------------------------------------------------------ PUT /products/:id
\* Object.assign(product, req.body); product.save()
UpdateProduct(caller, pid, price, isActive) ==
    IF Authenticate(caller) # 200 \/ RequireAdmin(caller) # 200
    THEN /\ last' = Respond("product", 0, AdminGate(caller), <<>>)
         /\ UNCHANGED <<orders, products, nextId, raters>>
    ELSE IF pid \notin DOMAIN products
    THEN /\ last' = Respond("product", 0, 404, <<pid>>)
         /\ UNCHANGED <<orders, products, nextId, raters>>
    ELSE /\ products' = [products EXCEPT ![pid].price = price,
                                         ![pid].isActive = isActive]
         /\ last' = Respond("product", 0, 200, <<pid>>)
         /\ UNCHANGED <<orders, nextId, raters>>

\* ------------------------------------------------ POST /products/:id/rate
\* rating: { average: default 0, count: default 0 } of the Product schema;
\* the average is kept as the exact fraction num/den in lowest terms
RatingDefault == [average |-> [num |-> 0, den |-> 1], count |-> 0]

RECURSIVE Gcd(_, _)
Gcd(a, b) == IF b = 0 THEN a ELSE Gcd(b, a % b)

Fraction(n, d) == [num |-> n \div Gcd(n, d), den |-> d \div Gcd(n, d)]

\* variant: the mean of the old average and the new rating
NewAverageOfTwo(prevAvg, prevCount, rating) ==
    Fraction(prevAvg.num + rating * prevAvg.den, prevAvg.den * 2)

\* newAvg = ((prevAvg * prevCount) + rating) / newCount
NewAverage(prevAvg, prevCount, rating) ==
    Fraction(prevAvg.num * prevCount + rating * prevAvg.den,
             prevAvg.den * (prevCount + 1))

\* !rating || rating < 1 || rating > 5
RatingRejected(rating) == rating = 0 \/ rating < 1 \/ rating > 5

\* the two requests that may be in flight at once
RateSlots == {1, 2}

IdleRater == [pc |-> "idle", pid |-> NULL, rating |-> 0, doc |-> RatingDefault]

\* up to the await of Product.findById: validation, lookup, and the document
\* the handler now holds
RateRead(slot, pid, rating) ==
    /\ raters[slot].pc # "read"
    /\ IF RatingRejected(rating)
       THEN /\ last' = Respond("rate", 0, 400, <<pid>>)
            /\ UNCHANGED <<orders, products, nextId, raters>>
       ELSE IF pid \notin DOMAIN products \/ ~products[pid].isActive
       THEN /\ last' = Respond("rate", 0, 404, <<pid>>)
            /\ UNCHANGED <<orders, products, nextId, raters>>
       ELSE /\ raters' = [raters EXCEPT ![slot] =
                             [pc |-> "read", pid |-> pid, rating |-> rating,
                              doc |-> products[pid].rating]]
            /\ UNCHANGED <<orders, products, nextId, last>>

\* variant: the update is computed from the stored document
StoredRating(slot) == products[raters[slot].pid].rating

\* the rating of the document object the handler loaded
LoadedRating(slot) == raters[slot].doc

\* the new average and count, product.save() and the response
RateWrite(slot) ==
    /\ raters[slot].pc = "read"
    /\ LET prevAvg == LoadedRating(slot).average
           prevCount == LoadedRating(slot).count
           newCount == prevCount + 1
           newAvg == NewAverage(prevAvg, prevCount, raters[slot].rating)
       IN /\ products' = [products EXCEPT ![raters[slot].pid].rating =
                             [average |-> newAvg, count |-> newCount]]
          /\ raters' = [raters EXCEPT ![slot].pc = "done"]
          /\ last' = Respond("rate", 0, 200, <<raters[slot].pid>>)
          /\ UNCHANGED <<orders, nextId>>

\* --------------------------------------------------------- GET /orders/:id
GetOrder(caller, id) ==
    IF ~OrderFound(id)
    THEN /\ last' = Respond("get", id, 404, <<caller>>)
         /\ UNCHANGED <<orders, products, nextId, raters>>
    ELSE IF FindById(id).user # NULL /\ ReqUser(caller) # NULL
            /\ FindById(id).user # ReqUser(caller)
    THEN /\ last' = Respond("get", id, 403, <<caller>>)
         /\ UNCHANGED <<orders, products, nextId, raters>>
    ELSE \* res.json(order)
         /\ last' = Respond("get", id, 200, <<caller>>)
         /\ UNCHANGED <<orders, products, nextId, raters>>

\* ------------------------------------------------------------ the system
NoRequest == Respond("none", 0, 0, <<>>)

\* a deployed store: the catalogue is seeded, no order has been placed
Init ==
    /\ orders = [i \in {} |-> NULL]
    /\ products = [p \in ProductIds |->
                      [price |-> 1, isActive |-> TRUE, rating |-> RatingDefault]]
    /\ raters = [slot \in RateSlots |-> IdleRater]
    /\ nextId = 1
    /\ last = NoRequest

\* document ids a request can name: every id issued so far and one unknown
IdInputs == 1..nextId

\* request bodies of POST /orders: items naming the catalogue entry "p1" or
\* a product id the catalogue does not hold
ItemInputs == [productId : {"p1", "p_unknown"}, quantity : 1..MaxQty]

ItemSeqs == UNION {[1..n -> ItemInputs] : n \in 1..MaxItems}

\* requests of PUT /admin/orders/:id/status: any body from the admin, and
\* one request from each kind of caller the admin gate turns away
StatusRequests ==
    ({"admin"} \X IdInputs \X (OrderStatuses \cup {NULL})
               \X (PaymentStatuses \cup {NULL}))
    \cup {<<"u1", 1, NULL, "paid">>, <<"anon", 1, "completed", NULL>>}

\* who places an order and how it is to be paid: a registered user by card
\* or bank transfer, a guest by card
OrderRequests == ({"u1"} \X PaymentMethods) \cup {<<"anon", "card">>}

\* order/payment lifecycle of orders for one catalogue entry
Next ==
    \/ /\ nextId <= MaxOrders
       /\ \E r \in OrderRequests :
             CreateOrder(r[1], <<[productId |-> "p1", quantity |-> 1]>>, r[2])
    \/ \E id \in IdInputs, file \in {"none", "image", "nonimage"}, ok \in BOOLEAN :
          UploadPaymentSlip(id, file, ok)
    \/ \E caller \in {"anon", "u1", "admin"}, id \in IdInputs, approved \in BOOLEAN :
          VerifyPaymentSlip(caller, id, approved)
    \/ \E r \in StatusRequests : UpdateOrderStatus(r[1], r[2], r[3], r[4])
    \/ \E caller \in {"anon", "u1", "u2"}, id \in IdInputs,
          gw \in IntentIds \cup {"throw"} :
          CreatePaymentIntent(caller, id, gw)
    \/ \E caller \in {"anon", "u1"}, id \in IdInputs,
          gw \in IntentStatuses \cup {"throw"} :
          ConfirmPayment(caller, id, gw)
    \/ \E sig \in Signatures, evType \in EventTypes, id \in IdInputs :
          Webhook(sig, evType, id)

Spec == Init /\ [][Next]_vars

\* order placement against a catalogue entry whose price and active flag
\* change between orders
NextOrders ==
    \/ /\ nextId <= MaxOrders
       /\ \E items \in ItemSeqs : CreateOrder("u1", items, "card")
    \/ \E caller \in {"u1", "admin"}, price \in 1..MaxPrice, a \in BOOLEAN :
          UpdateProduct(caller, "p1", price, a)

SpecOrders == Init /\ [][NextOrders]_vars

\* order numbering under creations and deletions
NextNumbers ==
    \/ /\ nextId <= MaxCreated
       /\ \E caller \in {"anon", "u1"} :
             CreateOrder(caller, <<[productId |-> "p1", quantity |-> 1]>>, "card")
    \/ \E caller \in {"u1", "admin"}, id \in IdInputs : DeleteOrder(caller, id)

SpecNumbers == Init /\ [][NextNumbers]_vars

\* rating values a request may carry
RatingInputs == {0, 1, 5, 6}

\* product ratings, two requests at a time
NextRatings ==
    \/ /\ products["p1"].rating.count < MaxRatings
       /\ \E slot \in RateSlots, pid \in {"p1", "p_unknown"}, r \in RatingInputs :
             RateRead(slot, pid, r)
    \/ \E slot \in RateSlots : RateWrite(slot)

SpecRatings == Init /\ [][NextRatings]_vars

\* who may read an order
NextAccess ==
    \/ /\ nextId <= MaxCreated
       /\ \E caller \in {"anon", "u1"} :
             CreateOrder(caller, <<[productId |-> "p1", quantity |-> 1]>>, "card")
    \/ \E caller \in Callers, id \in IdInputs : GetOrder(caller, id)

SpecAccess == Init /\ [][NextAccess]_vars

\* the admin router: order placement and the two routes that write orders,
\* called by every kind of caller
NextAdmin ==
    \/ /\ nextId <= MaxOrders
       /\ \E r \in OrderRequests :
             CreateOrder(r[1], <<[productId |-> "p1", quantity |-> 1]>>, r[2])
    \/ \E caller \in Callers, id \in IdInputs, approved \in BOOLEAN :
          VerifyPaymentSlip(caller, id, approved)
    \/ \E caller \in Callers, id \in IdInputs,
          os \in {NULL, "processing", "completed"}, ps \in {NULL, "paid"} :
          UpdateOrderStatus(caller, id, os, ps)

SpecAdmin == Init /\ [][NextAdmin]_vars

\* ================================================================ claims
PaidProcessing(o) == o.paymentStatus = "paid" /\ o.orderStatus = "processing"

SucceededEvent == "payment_intent.succeeded"

\* C1: a webhook whose signature is missing, malformed or mismatched is
\* answered with 400 and leaves every order exactly as it was.
C1_InvalidSignatureNoChange ==
    [][(last'.op = "webhook" /\ last'.arg[1] # "valid")
          => (last'.code = 400 /\ orders' = orders)]_vars

\* an unverifiable succeeded-event has been delivered while an order exists
C1_Witness ==
    /\ last.op = "webhook"
    /\ last.arg = <<"mismatch", SucceededEvent>>
    /\ last.code = 400
    /\ DOMAIN orders # {}

\* C2: no webhook and no confirm-payment request takes an order that is
\* paid to any other payment status.
C2_PaidStaysPaid ==
    [][last'.op \in {"webhook", "confirm"}
          => \A id \in DOMAIN orders :
                orders[id].paymentStatus = "paid"
                   => /\ id \in DOMAIN orders'
                      /\ orders'[id].paymentStatus = "paid"]_vars

\* a payment-failed event has been delivered with a valid signature while an
\* order is paid
C2_Witness ==
    /\ last.op = "webhook"
    /\ last.arg = <<"valid", "payment_intent.payment_failed">>
    /\ \E id \in DOMAIN orders : orders[id].paymentStatus = "paid"

\* C3: whatever the operation, a change of an order's paymentStatus is
\* pending -> paid or pending -> failed.
C3_OnlyForwardPaymentTransitions ==
    [][\A id \in DOMAIN orders \cap DOMAIN orders' :
          orders'[id].paymentStatus # orders[id].paymentStatus
             => /\ orders[id].paymentStatus = "pending"
                /\ orders'[id].paymentStatus \in {"paid", "failed"}]_vars

\* C4: a validly signed payment_intent.succeeded webhook for an existing
\* order leaves the order paid/processing, and delivered to an order that is
\* already paid/processing it changes nothing.
C4_SucceededWebhookIdempotent ==
    [][\A id \in DOMAIN orders :
          Webhook("valid", SucceededEvent, id)
             => /\ PaidProcessing(orders'[id])
                /\ PaidProcessing(orders[id]) => orders' = orders]_vars

\* C5: a card order becomes paid or processing only in a confirm-payment
\* request that saw a succeeded intent or in a webhook with a valid signature.
C5_CardPaidOnlyViaGateway ==
    [][\A id \in DOMAIN orders \cap DOMAIN orders' :
          (/\ orders[id].paymentMethod = "card"
           /\ \/ (orders'[id].paymentStatus = "paid"
                    /\ orders[id].paymentStatus # "paid")
              \/ (orders'[id].orderStatus = "processing"
                    /\ orders[id].orderStatus # "processing"))
             => \/ (last'.op = "confirm" /\ last'.arg = <<"succeeded">>)
                \/ (last'.op = "webhook" /\ last'.arg[1] = "valid")]_vars

\* C6: when the gateway reports success for an existing order (confirm-payment
\* retrieving a succeeded intent, or a validly signed succeeded webhook) the
\* handler answers 200 and the order is paid/processing.
C6_GatewaySuccessMarksPaid ==
    [][\A id \in DOMAIN orders :
          (ConfirmPayment("u1", id, "succeeded")
             \/ Webhook("valid", SucceededEvent, id))
             => (last'.code = 200 /\ PaidProcessing(orders'[id]))]_vars

\* C7: a create-payment-intent or confirm-payment request whose gateway call
\* fails is answered with 500 and leaves every order as it was.
C7_GatewayFailureNoChange ==
    [][(/\ last'.op \in {"intent", "confirm"}
        /\ last'.arg \in {<<"gateway_error">>, <<"reference_error">>})
          => (last'.code = 500 /\ orders' = orders)]_vars

\* the gateway refused to create an intent for an order of the caller
C7_Witness ==
    /\ last.op = "intent"
    /\ last.arg = <<"gateway_error">>
    /\ last.code = 500
    /\ last.id \in DOMAIN orders
    /\ orders[last.id].stripePaymentIntent = NULL

\* sum of price x quantity over the first k captured line items
RECURSIVE SumLineItems(_, _)
SumLineItems(lineItems, k) ==
    IF k = 0 THEN 0
    ELSE lineItems[k].price * lineItems[k].quantity + SumLineItems(lineItems, k - 1)

\* C8: an order created from a request has one line item per requested item,
\* with the requested quantity and the product's price at that moment, and
\* every stored order's totalAmount is the sum of price x quantity over its
\* captured line items.
C8_TotalIsSumOfLineItems ==
    [][/\ (last'.op = "create" /\ last'.code = 201 /\ nextId' # nextId)
             => \A items \in ItemSeqs :
                   CreateOrder("u1", items, "card")
                      => LET o == orders'[last'.id] IN
                         /\ Len(o.items) = Len(items)
                         /\ \A k \in 1..Len(items) :
                               /\ o.items[k].product = items[k].productId
                               /\ o.items[k].quantity = items[k].quantity
                               /\ o.items[k].price
                                     = products[items[k].productId].price
       /\ \A id \in DOMAIN orders' :
             orders'[id].totalAmount
                = SumLineItems(orders'[id].items, Len(orders'[id].items))]_vars

\* an order of two line items with different quantities exists whose
\* captured price is no longer the product's price
C8_Witness ==
    \E id \in DOMAIN orders :
       /\ Len(orders[id].items) = 2
       /\ orders[id].items[1].quantity = 2
       /\ orders[id].items[2].quantity = 1
       /\ orders[id].items[1].price = 2
       /\ products[orders[id].items[1].product].price = 1
       /\ orders[id].totalAmount = 6

\* the number an order-number digit string stands for
RECURSIVE OrderNumberValue(_)
OrderNumberValue(digits) ==
    IF digits = <<>> THEN 0
    ELSE 10 * OrderNumberValue(SubSeq(digits, 1, Len(digits) - 1))
         + digits[Len(digits)]

\* C9: of two stored orders the one created later has the strictly greater
\* order number (document ids are issued in creation order).
C9_OrderNumbersIncrease ==
    \A i, j \in DOMAIN orders :
       i < j => OrderNumberValue(orders[i].orderNumber)
                   < OrderNumberValue(orders[j].orderNumber)

\* C10: a slip verification sets paid when approved and failed otherwise,
\* and the operation that follows a verification of an order leaves that
\* order's paymentStatus alone.
C10_VerificationIsTerminal ==
    [][/\ (last'.op = "verify" /\ last'.code = 200)
             => orders'[last'.id].paymentStatus
                   = IF last'.arg = <<"approved">> THEN "paid" ELSE "failed"
       /\ (last.op = "verify" /\ last.code = 200 /\ last.id \in DOMAIN orders')
             => orders'[last.id].paymentStatus
                   = orders[last.id].paymentStatus]_vars

\* C11: a slip upload answers 200 only for an existing bank_transfer order
\* and an accepted file, and then the order holds the slip record and is
\* pending, nothing else changed; a missing order gets 404, a card order 400,
\* a request without a file 400, each without an upload to storage and with
\* every order unchanged.
C11_SlipUploadEffect ==
    [][last'.op = "slip"
          => LET id == last'.id
                 file == last'.arg[1]
                 sent == last'.arg[2]
             IN /\ last'.code = 200
                      => /\ id \in DOMAIN orders
                         /\ orders[id].paymentMethod = "bank_transfer"
                         /\ file = "image"
                         /\ sent = "upload"
                         /\ orders' = [orders EXCEPT ![id].paymentSlip = "url",
                                                     ![id].paymentStatus = "pending"]
                /\ last'.code # 200 => orders' = orders
                /\ (id # 0 /\ id \notin DOMAIN orders)
                      => (last'.code = 404 /\ sent = "no_upload")
                /\ (id \in DOMAIN orders /\ orders[id].paymentMethod # "bank_transfer")
                      => (last'.code = 400 /\ sent = "no_upload")
                /\ (id \in DOMAIN orders /\ file = "none")
                      => (last'.code = 400 /\ sent = "no_upload")]_vars

\* a slip has been uploaded for a bank_transfer order
C11_Witness ==
    /\ last.op = "slip"
    /\ last.code = 200
    /\ last.arg = <<"image", "upload">>
    /\ last.id \in DOMAIN orders
    /\ orders[last.id].paymentMethod = "bank_transfer"
    /\ orders[last.id].paymentSlip = "url"
    /\ orders[last.id].paymentStatus = "pending"

\* C12: a slip upload of a non-image file never reaches storage, is not
\* answered with 200 and leaves every order unchanged.
C12_NonImageRejected ==
    [][(last'.op = "slip" /\ last'.arg[1] = "nonimage")
          => /\ last'.arg[2] = "no_upload"
             /\ last'.code # 200
             /\ orders' = orders]_vars

\* a non-image file has been sent while a bank_transfer order exists
C12_Witness ==
    /\ last.op = "slip"
    /\ last.arg = <<"nonimage", "no_upload">>
    /\ \E id \in DOMAIN orders : orders[id].paymentMethod = "bank_transfer"

\* C13: a request to an /admin route from a caller without a token is
\* answered 401, one from an authenticated non-admin 403, and neither changes
\* an order or a product.
C13_AdminRoutesRefuseNonAdmins ==
    [][last'.op \in {"verify", "status"}
          => \A caller \in Callers \ {"admin"}, id \in IdInputs :
                ((\E approved \in BOOLEAN : VerifyPaymentSlip(caller, id, approved))
                 \/ (\E os \in {NULL, "processing", "completed"}, ps \in {NULL, "paid"} :
                        UpdateOrderStatus(caller, id, os, ps)))
                   => /\ last'.code = IF caller = "anon" THEN 401 ELSE 403
                      /\ orders' = orders
                      /\ products' = products]_vars

\* a non-admin has been turned away while an order is waiting for review
C13_Witness ==
    /\ last.op = "verify"
    /\ last.code = 403
    /\ \E id \in DOMAIN orders : orders[id].paymentStatus = "pending"

\* C14: POST /orders with valid items is answered 201 with a stored order;
\* sent without a token the order has no user and the body's guestInfo, sent
\* by a registered user it belongs to that user and has no guestInfo.
C14_GuestAndUserOrders ==
    [][last'.op = "create"
          => \A caller \in {"anon", "u1"} :
                CreateOrder(caller, <<[productId |-> "p1", quantity |-> 1]>>, "card")
                   => /\ last'.code = 201
                      /\ last'.id \in DOMAIN orders' \ DOMAIN orders
                      /\ orders'[last'.id].user
                            = (IF caller = "anon" THEN NULL ELSE caller)
                      /\ orders'[last'.id].guestInfo
                            = (IF caller = "anon" THEN "guest" ELSE NULL)]_vars

\* a guest's order and a registered user's order are both stored
C14_Witness ==
    /\ last.op = "create"
    /\ last.code = 201
    /\ \E i, j \in DOMAIN orders :
          /\ orders[i].user = NULL /\ orders[i].guestInfo = "guest"
          /\ orders[j].user = "u1" /\ orders[j].guestInfo = NULL

\* C15: the write of an accepted rating r on a document read with average a
\* and count c stores count c+1 and average (a*c + r)/(c+1) (for a request
\* no other write overlaps, a and c are the stored values just before);
\* a rating outside 1..5 is answered 400 and changes no product.
C15_RatingUpdate ==
    [][/\ \A slot \in RateSlots :
             (raters[slot].pc = "read" /\ raters'[slot].pc = "done")
                => LET a == raters[slot].doc.average
                       c == raters[slot].doc.count
                       r == raters[slot].rating
                       n == products'[raters[slot].pid].rating
                   IN /\ r \in 1..5
                      /\ last'.code = 200
                      /\ n.count = c + 1
                      /\ n.average.num * (a.den * (c + 1))
                            = (a.num * c + r * a.den) * n.average.den
       /\ \A slot \in RateSlots, pid \in {"p1", "p_unknown"},
             r \in RatingInputs \ (1..5) :
             RateRead(slot, pid, r)
                => (last'.code = 400 /\ products' = products)]_vars

\* a rating of 5 has been added to a product rated once with 1
C15_Witness ==
    /\ last.op = "rate"
    /\ last.code = 200
    /\ products["p1"].rating = [average |-> [num |-> 3, den |-> 1], count |-> 2]
    /\ \E slot \in RateSlots :
          /\ raters[slot].pc = "done"
          /\ raters[slot].rating = 5
          /\ raters[slot].doc = [average |-> [num |-> 1, den |-> 1], count |-> 1]

\* C16: a rating write made from the document as stored adds one to the
\* stored count; a write made from a document read before another write
\* landed does not raise the stored count and stores a rating built from the
\* stale document alone, so the other rating is lost.
C16_RatingLostUpdate ==
    [][\A slot \in RateSlots :
          (raters[slot].pc = "read" /\ raters'[slot].pc = "done")
             => LET doc == raters[slot].doc
                    cur == products[raters[slot].pid].rating
                    new == products'[raters[slot].pid].rating
                IN /\ doc = cur => new.count = cur.count + 1
                   /\ doc.count < cur.count
                         => /\ new.count <= cur.count
                            /\ new.count = doc.count + 1
                            /\ new.average.num * (doc.average.den * new.count)
                                  = (doc.average.num * doc.count
                                       + raters[slot].rating * doc.average.den)
                                    * new.average.den]_vars

\* two requests with different ratings read the same unrated document and
\* both wrote: one rating is counted
C16_Witness ==
    /\ raters[1].pc = "done"
    /\ raters[2].pc = "done"
    /\ raters[1].pid = raters[2].pid
    /\ raters[1].doc = RatingDefault
    /\ raters[2].doc = RatingDefault
    /\ raters[1].rating # raters[2].rating
    /\ products["p1"].rating.count = 1
    /\ products["p1"].rating.average.den = 1
    /\ products["p1"].rating.average.num \in {raters[1].rating, raters[2].rating}

\* C17: an order that is processing or completed is paid, and an order
\* becomes completed only from processing.
C17_LifecycleOrder ==
    [][\A id \in DOMAIN orders' :
          /\ orders'[id].orderStatus \in {"processing", "completed"}
                => orders'[id].paymentStatus = "paid"
          /\ (/\ id \in DOMAIN orders
              /\ orders'[id].orderStatus = "completed"
              /\ orders[id].orderStatus # "completed")
                => orders[id].orderStatus = "processing"]_vars

C19_OrderReadOnlyByOwner ==
    (/\ last.op = "get"
     /\ last.id \in DOMAIN orders
     /\ orders[last.id].user # NULL
     /\ last.arg[1] # orders[last.id].user)
       => last.code = 403

====
